---- MODULE Spec2Model ----
(***************************************************************************)
(* A model of the MiGo intermediate representation (package migo) and of   *)
(* migoutil.SimplifyProgram: the construction API of Program and Function, *)
(* the communication-reachability analysis findEmptyFuncMain, the plain    *)
(* and the annotated serializer with the Properties registry, and the      *)
(* simplification pipeline.                                                *)
(***************************************************************************)
EXTENDS Integers, Sequences, FiniteSets, TLC

VARIABLES
    Funcs,      \* Program.Funcs: the registered functions, in registration order
    calls,      \* history: the names AddFunction was called with, in order
    steps,      \* number of Function-level calls made so far (bounds the run)
    ret,        \* what the last call of the construction API returned
    saved,      \* history, per function: the sequences PutAway has put away
    known,      \* findEmptyFunc: the map of known functions of the current run
    callstack,  \* findEmptyFunc: the activation records of the recursion
    visits,     \* history: how often the current run entered each body
    phase,      \* "idle", "run" or "done": where the analysis stands
    root,       \* the function findEmptyFuncMain was called with
    before,     \* history: the Program as the current analysis run found it
    pc,         \* SimplifyProgram: the calls it has still to make, in order
    trace,      \* history: the passes SimplifyProgram has run, in order
    prog0,      \* history: the Program as it was handed to SimplifyProgram
    tauDeleted, \* history: the names tau-function reduction deleted
    props,      \* the Properties registry the last annotated render worked on
    hist        \* history: the render and AddParams calls made so far, each
                \* with its arguments, the Program it found and its result

builderVars == <<calls, steps, ret, saved>>
analysisVars == <<known, callstack, visits, phase, root, before>>
simplifyVars == <<pc, trace, prog0, tauDeleted>>
renderVars == <<props, hist>>
vars == <<Funcs, builderVars, analysisVars, simplifyVars, renderVars>>

----------------------------------------------------------------------------
(* Bounds of the model. *)

\* AddFunction calls in one run of Spec.
MaxAdds == 2
\* AddStmts / PutAway / Restore / String / findEmptyFuncMain calls in one run.
MaxSteps == 4
\* Statements appended while building a Program of SpecAnalysis.
MaxTotal == 4
\* Statements appended while building a Program of FairAnalysis.
MaxFairTotal == 3
\* Statements appended while building a Program of SpecSimplify.
MaxSimpStmts == 3
\* Statements in the batch SpecHasComm hands to AddStmts.
MaxBatch == 2
\* Parameters in one AddParams call of SpecParams.
MaxParams == 2
\* Functions of a Program of SpecRender.
MaxRenderFuncs == 2

----------------------------------------------------------------------------
(* Names. *)

\* The reserved name of the entry point, as SimplifyProgram looks it up.
MainName == "\"main\".main"

\* A name no function of the Program ever carries: the target of a dead call.
Missing == "missing"

----------------------------------------------------------------------------
(* Statements: one record shape for the whole variant family.  np is       *)
(* len(Params) of a Call or Spawn; Then and Else are the branches of an If *)
(* or IfFor; Cases are the cases of a Select; Pos is the Line of the Pos   *)
(* field, 0 where the constructor left it unset.                           *)

\* The Line of noPosition.
noPosition == 0

Stmt(k, n, p, t, e) ==
    [kind |-> k, Name |-> n, np |-> p, Then |-> t, Else |-> e,
     Cases |-> <<>>, Pos |-> noPosition]

CallStatement(n, p) == Stmt("Call", n, p, <<>>, <<>>)
SpawnStatement(n, p) == Stmt("Spawn", n, p, <<>>, <<>>)
IfStatement(t, e) == Stmt("If", "", 0, t, e)
IfForStatement(t, e) == Stmt("IfFor", "", 0, t, e)
TauStatement == Stmt("Tau", "", 0, <<>>, <<>>)
SendStatement == Stmt("Send", "", 0, <<>>, <<>>)
RecvStatement == Stmt("Recv", "", 0, <<>>, <<>>)
CloseStatement == Stmt("Close", "", 0, <<>>, <<>>)
SelectStatement == Stmt("Select", "", 0, <<>>, <<>>)
NewChanStatement == Stmt("NewChan", "", 0, <<>>, <<>>)
MemWrite == Stmt("MemWrite", "", 0, <<>>, <<>>)
MemRead == Stmt("MemRead", "", 0, <<>>, <<>>)
SyncMutexLock == Stmt("SyncMutexLock", "", 0, <<>>, <<>>)

\* A Select with its cases, each a statement sequence.
SelectCases(cases) == [SelectStatement EXCEPT !.Cases = cases]

\* The statement s with its Pos field set to a position on the given line.
At(s, line) == [s EXCEPT !.Pos = line]

\* stmt.Position().Line: If, IfFor and Tau carry no position.
Position(s) == IF s.kind \in {"If", "IfFor", "Tau"} THEN noPosition ELSE s.Pos

\* The variants hasComm classifies as communicating on sight.
CommKinds == {"Send", "Recv", "Close", "Select", "NewChan"}

IsTau(s) == s.kind = "Tau"
IsCallOrSpawn(s) == s.kind \in {"Call", "Spawn"}

----------------------------------------------------------------------------
(* Function and its construction API. *)

\* All sequences over S of length at most n.
SeqsUpTo(n, S) == UNION {[1..k -> S] : k \in 0..n}

\* NewFunction: empty body, HasComm false (the zero value), an empty stack.
\* id stands for the identity of the object (the *Function pointer).
\* Params starts empty; Pos is the Line of the position, set by FunctionAt.
NewFunction(name, id) ==
    [Name |-> name, id |-> id, Stmts |-> <<>>, HasComm |-> FALSE, stack |-> <<>>,
     Params |-> <<>>, Pos |-> noPosition]

\* NewFunction with a position on the given line.
FunctionAt(name, id, line) == [NewFunction(name, id) EXCEPT !.Pos = line]

\* A Parameter: the caller-side and the callee-side variable.  A variable is
\* its identity: the comparisons of AddParams compare NamedVar values.
Parameter(caller, callee) == [Caller |-> caller, Callee |-> callee]

\* A wrong AddParams: a parameter is dropped only when both sides collide.
RECURSIVE AddParamsBothSides(_, _)
AddParamsBothSides(f, params) ==
    IF params = <<>> THEN f
    ELSE LET param == Head(params)
             found == \E k \in 1..Len(f.Params) :
                          /\ f.Params[k].Callee = param.Callee
                          /\ f.Params[k].Caller = param.Caller
         IN AddParamsBothSides(IF found THEN f ELSE [f EXCEPT !.Params = Append(@, param)],
                               Tail(params))

\* AddParams: each parameter in turn is appended unless an entry of f.Params,
\* as it is by then, has its callee-side or its caller-side variable.
RECURSIVE AddParams(_, _)
AddParams(f, params) ==
    IF params = <<>> THEN f
    ELSE LET param == Head(params)
             found == \E k \in 1..Len(f.Params) :
                          \/ f.Params[k].Callee = param.Callee
                          \/ f.Params[k].Caller = param.Caller
         IN AddParams(IF found THEN f ELSE [f EXCEPT !.Params = Append(@, param)],
                      Tail(params))

\* A wrong hasComm: only communicating variants decide, every other variant
\* (a conditional, a Call, a Spawn) is scanned past.
RECURSIVE hasCommScanOn(_)
hasCommScanOn(stmts) ==
    IF stmts = <<>> THEN FALSE
    ELSE Head(stmts).kind \in CommKinds \/ hasCommScanOn(Tail(stmts))

RECURSIVE hasComm(_)
hasComm(stmts) ==
    IF stmts = <<>> THEN FALSE
    ELSE LET s == Head(stmts) IN
         CASE s.kind \in CommKinds -> TRUE
           [] s.kind \in {"If", "IfFor"} -> hasComm(s.Then) \/ hasComm(s.Else)
           [] s.kind \in {"Call", "Spawn"} -> s.np > 0
           [] OTHER -> hasComm(Tail(stmts))

\* A wrong AddStmts: HasComm is recomputed from the batch instead of latched.
AddStmtsRecompute(f, stmts) ==
    LET numStmts == Len(f.Stmts) IN
    IF numStmts > 1 /\ IsTau(f.Stmts[numStmts])
    THEN [f EXCEPT !.Stmts = @ \o stmts]
    ELSE [f EXCEPT !.HasComm = hasComm(stmts), !.Stmts = @ \o stmts]

\* A wrong AddStmts: the trailing-Tau test is dropped.
AddStmtsNoTauCase(f, stmts) ==
    [f EXCEPT !.HasComm = @ \/ hasComm(stmts), !.Stmts = @ \o stmts]

AddStmts(f, stmts) ==
    LET numStmts == Len(f.Stmts) IN
    IF numStmts > 1 /\ IsTau(f.Stmts[numStmts])
    THEN [f EXCEPT !.Stmts = @ \o stmts]
    ELSE [f EXCEPT !.HasComm = IF ~@ /\ hasComm(stmts) THEN TRUE ELSE @,
                   !.Stmts = @ \o stmts]

IsEmpty(f) == Len(f.Stmts) = 0

\* StmtsStack.Push and StmtsStack.Pop: a LIFO stack of statement sequences;
\* Pop of an empty stack gives the EmptyStack error and no statements.
StackPush(s, stmts) == Append(s, stmts)

StackPop(s) ==
    IF s = <<>>
    THEN [stack |-> s, stmts |-> <<>>, err |-> "EmptyStack"]
    ELSE [stack |-> SubSeq(s, 1, Len(s) - 1), stmts |-> s[Len(s)], err |-> "nil"]

\* A wrong PutAway: the current sequence is not what gets pushed.
PutAwayLosing(f) == [f EXCEPT !.stack = StackPush(@, <<>>), !.Stmts = <<>>]

PutAway(f) == [f EXCEPT !.stack = StackPush(@, f.Stmts), !.Stmts = <<>>]

\* A wrong Restore: the error of Pop is swallowed.
RestoreNoError(f) ==
    LET r == StackPop(f.stack) IN
    [f |-> [f EXCEPT !.stack = r.stack], stmts |-> r.stmts, err |-> "nil"]

\* Restore hands Pop's results to the caller; f.Stmts is not assigned.
Restore(f) ==
    LET r == StackPop(f.stack) IN
    [f |-> [f EXCEPT !.stack = r.stack], stmts |-> r.stmts, err |-> r.err]

\* A wrong String: an empty body is left empty.
StringEffectNone(f) == f

\* A wrong String: a Tau is appended whatever the body is.
StringEffectAppend(f) == [f EXCEPT !.Stmts = Append(@, TauStatement)]

\* Function.String, as far as it changes the function: an empty body gets a Tau.
StringEffect(f) == IF Len(f.Stmts) = 0 THEN AddStmts(f, <<TauStatement>>) ELSE f

----------------------------------------------------------------------------
(* Program. *)

\* Program.Function: the first function of that name; 0 stands for (nil, false).
Function(p, name) ==
    IF \E i \in 1..Len(p) : p[i].Name = name
    THEN CHOOSE i \in 1..Len(p) : p[i].Name = name /\ \A j \in 1..(i - 1) : p[j].Name # name
    ELSE 0

FuncNames(p) == {p[i].Name : i \in 1..Len(p)}

\* A wrong AddFunction: the name is not looked up.
AddFunctionAlways(p, f) == Append(p, f)

AddFunction(p, f) ==
    IF \E i \in 1..Len(p) : p[i].Name = f.Name THEN p ELSE Append(p, f)

----------------------------------------------------------------------------
(* The communication-reachability analysis, one step of the recursion at a *)
(* time.  A frame [fn, i] is one activation of findEmptyFunc: fn is the    *)
(* index of its function in Funcs, i the index of the statement its loop   *)
(* is at, 0 before the test of the known map.                              *)

\* A wrong lookup in the known map: nothing is ever found.
NeverKnown(k, name) == FALSE

\* The lookups known[f.Name] and known[child.Name].
IsKnown(k, name) == name \in DOMAIN k

\* A wrong merge: a callee makes its caller communicating whatever it is.
MergeCommAlways(own, child) == TRUE

\* f.HasComm = f.HasComm || hasComm.
MergeComm(own, child) == own \/ child

Top == callstack[Len(callstack)]
Pop(cs) == SubSeq(cs, 1, Len(cs) - 1)
Advance(cs) == [cs EXCEPT ![Len(cs)].i = @ + 1]

\* The return of the top activation.  From the root's activation control is
\* back in findEmptyFuncMain, which sets f.HasComm = true; otherwise the caller
\* merges child.HasComm, records itself in known and moves to its next statement.
ReturnStep ==
    IF Len(callstack) = 1
    THEN /\ Funcs' = [Funcs EXCEPT ![Top.fn].HasComm = TRUE]
         /\ callstack' = <<>>
         /\ phase' = "done"
         /\ known' = <<>>
    ELSE LET caller == callstack[Len(callstack) - 1].fn
             merged == MergeComm(Funcs[caller].HasComm, Funcs[Top.fn].HasComm)
         IN /\ Funcs' = [Funcs EXCEPT ![caller].HasComm = merged]
            /\ known' = (Funcs[caller].Name :> merged) @@ known
            /\ callstack' = Advance(Pop(callstack))
            /\ UNCHANGED phase

findEmptyFuncMain(r) ==
    /\ phase # "run"
    /\ steps < MaxSteps
    /\ r \in 1..Len(Funcs)
    /\ steps' = steps + 1
    /\ phase' = "run"
    /\ root' = r
    /\ known' = <<>>
    /\ callstack' = <<[fn |-> r, i |-> 0]>>
    /\ visits' = [n \in FuncNames(Funcs) |-> 0]
    /\ before' = Funcs
    /\ UNCHANGED <<Funcs, calls, ret, saved, simplifyVars, renderVars>>

\* Entry of findEmptyFunc: return when f is known, else record f and loop.
findEmptyFunc_Enter ==
    /\ phase = "run"
    /\ Top.i = 0
    /\ LET f == Funcs[Top.fn] IN
       IF IsKnown(known, f.Name)
       THEN ReturnStep /\ UNCHANGED visits
       ELSE /\ known' = (f.Name :> f.HasComm) @@ known
            /\ callstack' = Advance(callstack)
            /\ visits' = [visits EXCEPT ![f.Name] = @ + 1]
            /\ UNCHANGED <<Funcs, phase>>
    /\ UNCHANGED <<root, before, builderVars, simplifyVars, renderVars>>

\* A statement that is no Call or Spawn, or whose target is not in the Program.
findEmptyFunc_Skip ==
    /\ phase = "run"
    /\ Top.i \in 1..Len(Funcs[Top.fn].Stmts)
    /\ LET s == Funcs[Top.fn].Stmts[Top.i] IN
       ~IsCallOrSpawn(s) \/ Function(Funcs, s.Name) = 0
    /\ callstack' = Advance(callstack)
    /\ UNCHANGED <<Funcs, known, visits, phase, root, before, builderVars, simplifyVars, renderVars>>

\* A Call or Spawn of a known child: its recorded value is merged.
findEmptyFunc_Known ==
    /\ phase = "run"
    /\ Top.i \in 1..Len(Funcs[Top.fn].Stmts)
    /\ LET f == Funcs[Top.fn]
           s == f.Stmts[Top.i]
           c == Function(Funcs, s.Name)
       IN /\ IsCallOrSpawn(s)
          /\ c # 0
          /\ IsKnown(known, Funcs[c].Name)
          /\ LET merged == MergeComm(f.HasComm, known[Funcs[c].Name]) IN
             /\ Funcs' = [Funcs EXCEPT ![Top.fn].HasComm = merged]
             /\ known' = (f.Name :> merged) @@ known
    /\ callstack' = Advance(callstack)
    /\ UNCHANGED <<visits, phase, root, before, builderVars, simplifyVars, renderVars>>

\* A Call or Spawn of a child not yet known: the recursive call.
findEmptyFunc_Recurse ==
    /\ phase = "run"
    /\ Top.i \in 1..Len(Funcs[Top.fn].Stmts)
    /\ LET s == Funcs[Top.fn].Stmts[Top.i]
           c == Function(Funcs, s.Name)
       IN /\ IsCallOrSpawn(s)
          /\ c # 0
          /\ ~IsKnown(known, Funcs[c].Name)
          /\ callstack' = Append(callstack, [fn |-> c, i |-> 0])
    /\ UNCHANGED <<Funcs, known, visits, phase, root, before, builderVars, simplifyVars, renderVars>>

\* The loop over f.Stmts is over: findEmptyFunc returns.
findEmptyFunc_Return ==
    /\ phase = "run"
    /\ Top.i > Len(Funcs[Top.fn].Stmts)
    /\ ReturnStep
    /\ UNCHANGED <<visits, root, before, builderVars, simplifyVars, renderVars>>

----------------------------------------------------------------------------
(* The construction API as the extractor calls it.  The library is         *)
(* single-threaded: no call starts while an analysis runs, and a call ends *)
(* the previous analysis run's bookkeeping.                                *)

\* The names the extractor registers functions under.
BuildNames == {MainName, "f"}

\* The batches the extractor hands to AddStmts.
Batches ==
    { <<TauStatement>>, <<SendStatement>>, <<MemWrite>>, <<CallStatement("f", 0)>> }

\* A call that returns nothing.
NoRet == [stmts |-> <<>>, err |-> "none"]

AnalysisIdle ==
    /\ phase' = "idle"
    /\ root' = 0
    /\ visits' = <<>>
    /\ before' = <<>>
    /\ UNCHANGED <<known, callstack>>

CallAddFunction(name) ==
    /\ phase # "run"
    /\ Len(calls) < MaxAdds
    /\ LET f == NewFunction(name, Len(calls) + 1)
           p == AddFunction(Funcs, f)
       IN /\ Funcs' = p
          /\ saved' = [i \in 1..Len(p) |-> IF i <= Len(saved) THEN saved[i] ELSE <<>>]
    /\ calls' = Append(calls, name)
    /\ ret' = NoRet
    /\ AnalysisIdle
    /\ UNCHANGED <<steps, simplifyVars, renderVars>>

CallAddStmts(i, b) ==
    /\ phase # "run"
    /\ steps < MaxSteps
    /\ Funcs' = [Funcs EXCEPT ![i] = AddStmts(@, b)]
    /\ steps' = steps + 1
    /\ ret' = NoRet
    /\ AnalysisIdle
    /\ UNCHANGED <<calls, saved, simplifyVars, renderVars>>

CallPutAway(i) ==
    /\ phase # "run"
    /\ steps < MaxSteps
    /\ Funcs' = [Funcs EXCEPT ![i] = PutAway(@)]
    /\ saved' = [saved EXCEPT ![i] = Append(@, Funcs[i].Stmts)]
    /\ steps' = steps + 1
    /\ ret' = NoRet
    /\ AnalysisIdle
    /\ UNCHANGED <<calls, simplifyVars, renderVars>>

CallRestore(i) ==
    /\ phase # "run"
    /\ steps < MaxSteps
    /\ LET r == Restore(Funcs[i]) IN
       /\ Funcs' = [Funcs EXCEPT ![i] = r.f]
       /\ ret' = [stmts |-> r.stmts, err |-> r.err]
    /\ saved' = [saved EXCEPT ![i] = IF @ = <<>> THEN @ ELSE Pop(@)]
    /\ steps' = steps + 1
    /\ AnalysisIdle
    /\ UNCHANGED <<calls, simplifyVars, renderVars>>

CallString(i) ==
    /\ phase # "run"
    /\ steps < MaxSteps
    /\ Funcs' = [Funcs EXCEPT ![i] = StringEffect(@)]
    /\ steps' = steps + 1
    /\ ret' = NoRet
    /\ AnalysisIdle
    /\ UNCHANGED <<calls, saved, simplifyVars, renderVars>>

Init ==
    /\ Funcs = <<>>
    /\ calls = <<>>
    /\ steps = 0
    /\ ret = NoRet
    /\ saved = <<>>
    /\ known = <<>>
    /\ callstack = <<>>
    /\ visits = <<>>
    /\ phase = "idle"
    /\ root = 0
    /\ before = <<>>
    /\ pc = <<>>
    /\ trace = <<>>
    /\ prog0 = <<>>
    /\ tauDeleted = {}
    /\ props = <<>>
    /\ hist = <<>>

Next ==
    \/ \E name \in BuildNames : CallAddFunction(name)
    \/ \E i \in 1..Len(Funcs), b \in Batches : CallAddStmts(i, b)
    \/ \E i \in 1..Len(Funcs) : CallPutAway(i)
    \/ \E i \in 1..Len(Funcs) : CallRestore(i)
    \/ \E i \in 1..Len(Funcs) : CallString(i)
    \/ \E r \in 1..Len(Funcs) : findEmptyFuncMain(r)
    \/ findEmptyFunc_Enter
    \/ findEmptyFunc_Skip
    \/ findEmptyFunc_Known
    \/ findEmptyFunc_Recurse
    \/ findEmptyFunc_Return

Spec == Init /\ [][Next]_vars

----------------------------------------------------------------------------
(* The analysis on its own: SpecAnalysis starts from a Program the         *)
(* construction API has built (three functions, up to MaxTotal statements  *)
(* appended one AddStmts call at a time) and runs findEmptyFuncMain once,  *)
(* from any root.  FairAnalysis adds the fairness of sequential execution. *)

AnalysisNames == <<MainName, "a", "b">>

AnalysisPool ==
    { SendStatement, CallStatement(MainName, 0), CallStatement("a", 0),
      SpawnStatement("b", 0), CallStatement(Missing, 0) }

\* The Program after AddFunction(NewFunction(names[k])) for each k in order.
RECURSIVE Register(_, _)
Register(names, k) ==
    IF k = 0 THEN <<>>
    ELSE AddFunction(Register(names, k - 1), NewFunction(names[k], k))

\* The Program p after the calls ops[k][1].AddStmts(ops[k][2]), in order.
RECURSIVE Build(_, _, _)
Build(p, ops, k) ==
    IF k = 0 THEN p
    ELSE LET q == Build(p, ops, k - 1) IN
         [q EXCEPT ![ops[k][1]] = AddStmts(@, <<ops[k][2]>>)]

AnalysisInit(n) ==
    /\ \E ops \in SeqsUpTo(n, (1..Len(AnalysisNames)) \X AnalysisPool) :
          Funcs = Build(Register(AnalysisNames, Len(AnalysisNames)), ops, Len(ops))
    /\ calls = AnalysisNames
    /\ steps = MaxSteps - 1    \* one call is left: a single run of the analysis
    /\ ret = NoRet
    /\ saved = [i \in 1..Len(AnalysisNames) |-> <<>>]
    /\ known = <<>>
    /\ callstack = <<>>
    /\ visits = <<>>
    /\ phase = "idle"
    /\ root = 0
    /\ before = <<>>
    /\ pc = <<>>
    /\ trace = <<>>
    /\ prog0 = <<>>
    /\ tauDeleted = {}
    /\ props = <<>>
    /\ hist = <<>>

InitAnalysis == AnalysisInit(MaxTotal)

\* The same Programs with fewer statements, for the check of termination.
InitFair == AnalysisInit(MaxFairTotal)

NextAnalysis ==
    \/ \E r \in 1..Len(Funcs) : findEmptyFuncMain(r)
    \/ findEmptyFunc_Enter
    \/ findEmptyFunc_Skip
    \/ findEmptyFunc_Known
    \/ findEmptyFunc_Recurse
    \/ findEmptyFunc_Return

\* A step of a run that has started.
RunStep ==
    \/ findEmptyFunc_Enter
    \/ findEmptyFunc_Skip
    \/ findEmptyFunc_Known
    \/ findEmptyFunc_Recurse
    \/ findEmptyFunc_Return

SpecAnalysis == InitAnalysis /\ [][NextAnalysis]_vars

\* The analysis is ordinary sequential code: a call that can take a step does.
FairAnalysis == InitFair /\ [][NextAnalysis]_vars /\ WF_vars(RunStep)

----------------------------------------------------------------------------
(* The three passes SimplifyProgram calls, by their contracts.  Call and   *)
(* Spawn statements nested in the branches of an If or IfFor count as call *)
(* sites.                                                                  *)

Range(q) == {q[k] : k \in 1..Len(q)}

\* The names the Call and Spawn statements of stmts target.
RECURSIVE Targets(_)
Targets(stmts) ==
    UNION { IF IsCallOrSpawn(s) THEN {s.Name}
            ELSE Targets(s.Then) \cup Targets(s.Else) : s \in Range(stmts) }

\* stmts does nothing but Tau, given that the functions named in T do nothing.
RECURSIVE TauBody(_, _)
TauBody(stmts, T) ==
    \A s \in Range(stmts) :
        \/ IsTau(s)
        \/ IsCallOrSpawn(s) /\ s.Name \in T
        \/ s.kind \in {"If", "IfFor"} /\ TauBody(s.Then, T) /\ TauBody(s.Else, T)

\* The functions outside excl whose body is Tau statements only.
TrivialOnce(p, excl) ==
    {p[i].Name : i \in {i \in 1..Len(p) : p[i].Name \notin excl /\ TauBody(p[i].Stmts, {})}}

\* The same, counting a call of a trivial function as inaction (least fixpoint).
RECURSIVE TrivialFrom(_, _, _)
TrivialFrom(p, excl, T) ==
    LET U == T \cup {p[i].Name : i \in {i \in 1..Len(p) :
                        p[i].Name \notin excl /\ TauBody(p[i].Stmts, T)}}
    IN IF U = T THEN T ELSE TrivialFrom(p, excl, U)

TrivialClosure(p, excl) == TrivialFrom(p, excl, {})

\* The readings of "equivalent to inaction" the contract leaves open.
TrivialSets(p, excl) == {TrivialOnce(p, excl), TrivialClosure(p, excl)}

\* stmts with every Call and Spawn of a function in T rewritten to Tau.
RECURSIVE RewriteTau(_, _)
RewriteTau(stmts, T) ==
    [k \in 1..Len(stmts) |->
        LET s == stmts[k] IN
        IF IsCallOrSpawn(s)
        THEN IF s.Name \in T THEN TauStatement ELSE s
        ELSE [s EXCEPT !.Then = RewriteTau(s.Then, T), !.Else = RewriteTau(s.Else, T)]]

\* p without the functions named in D.
Without(p, D) ==
    LET Keep(f) == f.Name \notin D IN SelectSeq(p, Keep)

\* taufunc.Find with a removing callback: the functions of T are deleted and
\* the call sites that targeted them are rewritten to Tau.
TauFind(p, T) ==
    LET q == Without(p, T) IN
    [i \in 1..Len(q) |-> [q[i] EXCEPT !.Stmts = RewriteTau(@, T)]]

\* The names reachable from the names in S by call/spawn edges that resolve.
RECURSIVE ReachNames(_, _)
ReachNames(p, S) ==
    LET U == S \cup UNION {Targets(p[i].Stmts) \cap FuncNames(p) :
                              i \in {i \in 1..Len(p) : p[i].Name \in S}}
    IN IF U = S THEN S ELSE ReachNames(p, U)

\* unused.Remove: the functions not reachable from the root are deleted.
UnusedRemove(p, rootName) ==
    Without(p, FuncNames(p) \ ReachNames(p, {rootName} \cap FuncNames(p)))

\* stmts without the Call and Spawn statements whose target is not in names:
\* deleted (mode "delete") or turned into Tau (mode "tau").
RECURSIVE DeadStmts(_, _, _)
DeadStmts(stmts, names, mode) ==
    IF stmts = <<>> THEN <<>>
    ELSE LET s == Head(stmts)
             rest == DeadStmts(Tail(stmts), names, mode)
         IN IF IsCallOrSpawn(s)
            THEN IF s.Name \in names THEN <<s>> \o rest
                 ELSE IF mode = "tau" THEN <<TauStatement>> \o rest ELSE rest
            ELSE <<[s EXCEPT !.Then = DeadStmts(s.Then, names, mode),
                             !.Else = DeadStmts(s.Else, names, mode)]>> \o rest

\* deadcall.Remove.
DeadcallRemove(p, mode) ==
    [i \in 1..Len(p) |-> [p[i] EXCEPT !.Stmts = DeadStmts(@, FuncNames(p), mode)]]

----------------------------------------------------------------------------
(* SimplifyProgram, one call at a time. *)

\* A wrong SimplifyProgram: dead-call removal is left out.
PlanWithoutDeadcall(hasMM) ==
    IF hasMM THEN <<"taufunc.RemoveExcept", "unused.Remove">> ELSE <<"taufunc.Remove">>

\* A wrong SimplifyProgram: the root is not excluded from tau-function reduction.
PlanWithoutExcept(hasMM) ==
    IF hasMM
    THEN <<"taufunc.Remove", "unused.Remove", "deadcall.Remove">>
    ELSE <<"taufunc.Remove", "deadcall.Remove">>

\* A wrong SimplifyProgram: unused-function removal runs without a root too.
PlanUnusedAlways(hasMM) ==
    IF hasMM
    THEN <<"taufunc.RemoveExcept", "unused.Remove", "deadcall.Remove">>
    ELSE <<"taufunc.Remove", "unused.Remove", "deadcall.Remove">>

\* The calls SimplifyProgram makes, in order, by the outcome of the lookup.
SimplifyPlan(hasMM) ==
    IF hasMM
    THEN <<"taufunc.RemoveExcept", "unused.Remove", "deadcall.Remove">>
    ELSE <<"taufunc.Remove", "deadcall.Remove">>

AtCall(name) == pc # <<>> /\ Head(pc) = name

Called(name) ==
    /\ pc' = Tail(pc)
    /\ trace' = Append(trace, name)
    /\ UNCHANGED <<prog0, builderVars, analysisVars, renderVars>>

\* prog.Function(`"main".main`) and the branch it selects.
SimplifyProgram ==
    /\ AtCall("SimplifyProgram")
    /\ pc' = SimplifyPlan(Function(Funcs, MainName) # 0)
    /\ prog0' = Funcs
    /\ UNCHANGED <<Funcs, trace, tauDeleted, builderVars, analysisVars, renderVars>>

\* taufunc.Find(prog, taufunc.RemoveExcept(mainmain)).
taufunc_RemoveExcept ==
    /\ AtCall("taufunc.RemoveExcept")
    /\ \E T \in TrivialSets(Funcs, {MainName}) :
          /\ Funcs' = TauFind(Funcs, T)
          /\ tauDeleted' = T
    /\ Called("taufunc.RemoveExcept")

\* taufunc.Find(prog, taufunc.Remove).
taufunc_Remove ==
    /\ AtCall("taufunc.Remove")
    /\ \E T \in TrivialSets(Funcs, {}) :
          /\ Funcs' = TauFind(Funcs, T)
          /\ tauDeleted' = T
    /\ Called("taufunc.Remove")

\* unused.Remove(prog, mainmain).
unused_Remove ==
    /\ AtCall("unused.Remove")
    /\ Funcs' = UnusedRemove(Funcs, MainName)
    /\ UNCHANGED tauDeleted
    /\ Called("unused.Remove")

\* deadcall.Remove(prog).
deadcall_Remove ==
    /\ AtCall("deadcall.Remove")
    /\ \E mode \in {"delete", "tau"} : Funcs' = DeadcallRemove(Funcs, mode)
    /\ UNCHANGED tauDeleted
    /\ Called("deadcall.Remove")

\* SimplifyProgram has returned.
SimplifyDone == pc = <<>> /\ trace # <<>>

SimpNames == <<MainName, "h", "g">>

SimpPool ==
    { TauStatement, SendStatement, CallStatement("h", 0), SpawnStatement("g", 0),
      CallStatement(Missing, 0),
      IfStatement(<<CallStatement("h", 0)>>, <<SpawnStatement(Missing, 0)>>) }

\* The names of names that are in S, in order.
Chosen(names, S) ==
    LET In(n) == n \in S IN SelectSeq(names, In)

\* SpecSimplify starts from a Program the construction API has built: any
\* non-empty choice of the three functions, with up to MaxSimpStmts statements
\* appended one AddStmts call at a time.
InitSimplify ==
    /\ \E S \in (SUBSET Range(SimpNames)) \ {{}} :
          LET names == Chosen(SimpNames, S) IN
          /\ \E ops \in SeqsUpTo(MaxSimpStmts, (1..Len(names)) \X SimpPool) :
                Funcs = Build(Register(names, Len(names)), ops, Len(ops))
          /\ calls = names
          /\ saved = [i \in 1..Len(names) |-> <<>>]
    /\ steps = 0
    /\ ret = NoRet
    /\ known = <<>>
    /\ callstack = <<>>
    /\ visits = <<>>
    /\ phase = "idle"
    /\ root = 0
    /\ before = <<>>
    /\ pc = <<"SimplifyProgram">>
    /\ trace = <<>>
    /\ prog0 = <<>>
    /\ tauDeleted = {}
    /\ props = <<>>
    /\ hist = <<>>

NextSimplify ==
    \/ SimplifyProgram
    \/ taufunc_RemoveExcept
    \/ taufunc_Remove
    \/ unused_Remove
    \/ deadcall_Remove

SpecSimplify == InitSimplify /\ [][NextSimplify]_vars

----------------------------------------------------------------------------
(* Rendering.  A text is a sequence of lines, a line a record [kind,       *)
(* indent, body]: kind is "prop", "def" or "stmt", indent the number of    *)
(* leading blanks, body the tokens of the line in order.  A name is        *)
(* filtered character by character, so a name is spelled out as the        *)
(* sequence of its characters.                                             *)

\* The characters of the names the rendered Programs use.
Chars(name) ==
    CASE name = MainName -> <<"\"", "m", "a", "i", "n", "\"", ".", "m", "a", "i", "n">>
      [] name = "main.main" -> <<"m", "a", "i", "n", ".", "m", "a", "i", "n">>
      [] name = "\"os\".Exit" -> <<"\"", "o", "s", "\"", ".", "E", "x", "i", "t">>
      [] name = "(*\"a/b\".T).m" ->
            <<"(", "*", "\"", "a", "/", "b", "\"", ".", "T", ")", ".", "m">>
      [] OTHER -> <<name>>

\* The concatenation of the sequences in the sequence q.
RECURSIVE Flatten(_)
Flatten(q) == IF q = <<>> THEN <<>> ELSE Head(q) \o Flatten(Tail(q))

\* nameFilter: ( ) * " and - are deleted, / becomes _.
nameFilter(chars) ==
    Flatten([k \in 1..Len(chars) |->
                IF chars[k] \in {"(", ")", "*", "\"", "-"} THEN <<>>
                ELSE IF chars[k] = "/" THEN <<"_">>
                ELSE <<chars[k]>>])

\* Function.SimpleName, CallStatement.SimpleName and SpawnStatement.SimpleName.
SimpleName(name) == nameFilter(Chars(name))

\* strings.HasPrefix.
HasPrefix(chars, prefix) ==
    Len(chars) >= Len(prefix) /\ SubSeq(chars, 1, Len(prefix)) = prefix

\* CalleeParameterString: the callee-side names, separated by ", ".
CalleeParameterString(params) ==
    Flatten([k \in 1..Len(params) |->
                IF k = 1 THEN <<params[k].Callee>> ELSE <<", ", params[k].Callee>>])

\* stmt.String() as tokens; the np parameters of a Call or Spawn print as
\* np argument tokens.
RECURSIVE StmtString(_)
StmtString(s) ==
    LET Each(stmts) == Flatten([k \in 1..Len(stmts) |-> StmtString(stmts[k]) \o <<"; ">>])
        Case(stmts) ==
            <<"case">> \o Flatten([k \in 1..Len(stmts) |-> StmtString(stmts[k]) \o <<";">>])
    IN CASE s.kind = "Call" ->
              <<"call ">> \o SimpleName(s.Name) \o <<"(">> \o [k \in 1..s.np |-> "arg"] \o <<")">>
         [] s.kind = "Spawn" ->
              <<"spawn ">> \o SimpleName(s.Name) \o <<"(">> \o [k \in 1..s.np |-> "arg"] \o <<")">>
         [] s.kind = "If" ->
              <<"if ">> \o Each(s.Then) \o <<"else ">> \o Each(s.Else) \o <<"endif">>
         [] s.kind = "IfFor" ->
              <<"ifFor ">> \o Each(s.Then) \o <<"else ">> \o Each(s.Else) \o <<"endif">>
         [] s.kind = "Select" ->
              <<"select">> \o Flatten([k \in 1..Len(s.Cases) |-> Case(s.Cases[k])])
                           \o <<"endselect">>
         [] s.kind = "Tau" -> <<"tau">>
         [] s.kind = "Send" -> <<"send">>
         [] s.kind = "Recv" -> <<"recv">>
         [] s.kind = "Close" -> <<"close">>
         [] s.kind = "NewChan" -> <<"newchan">>
         [] s.kind = "MemWrite" -> <<"write">>
         [] s.kind = "MemRead" -> <<"read">>
         [] s.kind = "SyncMutexLock" -> <<"lock">>

Line(kind, indent, body) == [kind |-> kind, indent |-> indent, body |-> body]

\* "def %s(%s):\n".
DefLine(f) ==
    Line("def", 0, <<"def ">> \o SimpleName(f.Name) \o <<"(">>
                   \o CalleeParameterString(f.Params) \o <<"):">>)

\* "    %s;\n".
StmtLine(s) == Line("stmt", 4, StmtString(s) \o <<";">>)

\* "%s\n" and "    %s\n", one line for each property of the list.
PropLines(list, indent) == [k \in 1..Len(list) |-> Line("prop", indent, <<list[k]>>)]

\* Function.String: the text, and the function as the call leaves it.
FunctionString(f) ==
    LET g == StringEffect(f) IN
    [f |-> g,
     text |-> <<DefLine(f)>> \o [k \in 1..Len(g.Stmts) |-> StmtLine(g.Stmts[k])]]

\* The Properties registry: a map from line numbers to lists of properties.
NoProperties == <<>>

\* Properties.AddProperties.
AddProperties(ps, prop, line) ==
    [l \in DOMAIN ps \cup {line} |->
        (IF l \in DOMAIN ps THEN ps[l] ELSE <<>>) \o (IF l = line THEN prop ELSE <<>>)]

\* A wrong GetProperties: the entry read is not deleted.
GetPropertiesKeeping(ps, line) ==
    [list |-> IF line \in DOMAIN ps THEN ps[line] ELSE <<>>, ps |-> ps]

\* Properties.GetProperties: the list of the line, and the registry without it.
GetProperties(ps, line) ==
    [list |-> IF line \in DOMAIN ps THEN ps[line] ELSE <<>>,
     ps |-> [l \in DOMAIN ps \ {line} |-> ps[l]]]

\* A wrong IsEmpty: the registry always counts as empty.
PropertiesIsEmptyAlways(ps) == TRUE

\* Properties.IsEmpty.
PropertiesIsEmpty(ps) == DOMAIN ps = {}

\* Properties.Values: the lists of all lines, one after the other, in the
\* order the iteration over the map happens to take.
Values(ps) ==
    { Flatten([k \in 1..Len(order) |-> ps[order[k]]]) :
        order \in { o \in [1..Cardinality(DOMAIN ps) -> DOMAIN ps] :
                        \A i, j \in DOMAIN o : i # j => o[i] # o[j] } }

\* The loop of Function.PrintWithProperties over f.Stmts: the lines written
\* and the registry left.
RECURSIVE PrintStmts(_, _)
PrintStmts(stmts, ps) ==
    IF stmts = <<>> THEN [text |-> <<>>, ps |-> ps]
    ELSE LET stmt == Head(stmts)
             got == GetProperties(ps, Position(stmt))
             rest == PrintStmts(Tail(stmts), got.ps)
         IN [text |-> PropLines(got.list, 4) \o <<StmtLine(stmt)>> \o rest.text,
             ps |-> rest.ps]

\* Function.PrintWithProperties: the text, the function and the registry as
\* the call leaves them.
FunctionPrintWithProperties(f, ps) ==
    LET got == GetProperties(ps, f.Pos)
        g == StringEffect(f)
        body == PrintStmts(g.Stmts, got.ps)
    IN [f |-> g,
        text |-> PropLines(got.list, 0) \o <<DefLine(f)>> \o body.text,
        ps |-> body.ps]

\* A wrong Program.String: the test of IsEmpty is left out.
RECURSIVE ProgramStringAll(_, _)
ProgramStringAll(p, i) ==
    IF i > Len(p) THEN [p |-> p, text |-> <<>>]
    ELSE LET r == FunctionString(p[i])
             rest == ProgramStringAll([p EXCEPT ![i] = r.f], i + 1)
         IN [p |-> rest.p, text |-> r.text \o rest.text]

\* Program.String from function i on: the text, and the Program as left.
RECURSIVE ProgramString(_, _)
ProgramString(p, i) ==
    IF i > Len(p) THEN [p |-> p, text |-> <<>>]
    ELSE IF IsEmpty(p[i]) THEN ProgramString(p, i + 1)
    ELSE LET r == FunctionString(p[i])
             rest == ProgramString([p EXCEPT ![i] = r.f], i + 1)
         IN [p |-> rest.p, text |-> r.text \o rest.text]

\* The condition under which the loop of Program.PrintWithProperties renders f.
InLoop(f) ==
    LET n == SimpleName(f.Name) IN
    /\ n # <<"m", "a", "i", "n", ".", "m", "a", "i", "n">>
    /\ ~HasPrefix(n, <<"o", "s">>)
    /\ ~HasPrefix(n, <<"s", "y", "s", "c", "a", "l", "l">>)
    /\ ~HasPrefix(n, <<"i", "n", "t", "e", "r", "n", "a", "l", "_", "p", "o", "l", "l">>)
    /\ ~HasPrefix(n, <<"s", "y", "n", "c", ".", "o">>)

\* The loop of Program.PrintWithProperties from function i on.
RECURSIVE PrintLoop(_, _, _)
PrintLoop(p, ps, i) ==
    IF i > Len(p) THEN [p |-> p, text |-> <<>>, ps |-> ps]
    ELSE IF ~InLoop(p[i]) THEN PrintLoop(p, ps, i + 1)
    ELSE LET r == FunctionPrintWithProperties(p[i], ps)
             rest == PrintLoop([p EXCEPT ![i] = r.f], r.ps, i + 1)
         IN [p |-> rest.p, text |-> r.text \o rest.text, ps |-> rest.ps]

\* Program.PrintWithProperties up to the test of props.IsEmpty: the text
\* written to the buffer, the Program and the registry as left.  Without a
\* root the call main.PrintWithProperties dereferences nil: status "panic".
ProgramPrintWithProperties(p, ps) ==
    LET main == Function(p, MainName) IN
    IF main = 0 THEN [p |-> p, text |-> <<>>, ps |-> ps, status |-> "panic"]
    ELSE LET r == FunctionPrintWithProperties(p[main], ps)
             rest == PrintLoop([p EXCEPT ![main] = r.f], r.ps, 1)
         IN [p |-> rest.p, text |-> r.text \o rest.text, ps |-> rest.ps,
             status |-> IF PropertiesIsEmpty(rest.ps) THEN "ok" ELSE "fatal"]

----------------------------------------------------------------------------
(* The rendering API as a tool calls it.  SpecRender starts from a Program *)
(* the construction API has built and renders the whole Program twice,     *)
(* plain or annotated; SpecRenderFunction does the same with a function of *)
(* a Program of one function.  An annotated call is handed a registry      *)
(* built with AddProperties.  After a panic or a fatal failure the process *)
(* has ended and no call follows.                                          *)

\* The name of a method of a type of another package.
MethodName == "(*\"a/b\".T).m"

RenderNames == {MainName, "main.main", "\"os\".Exit", MethodName}

\* The source line of the function of each name.
LineOf(name) ==
    CASE name = MainName -> 1
      [] name = "main.main" -> 2
      [] OTHER -> 3

\* The parameters of the function of each name.
ParamsOf(name) == IF name = MethodName THEN <<Parameter("a", "x")>> ELSE <<>>

\* The bodies of the rendered functions: none; two statements of line 2; a
\* conditional with a statement of line 3 in a branch; a Select of line 2
\* with a statement of line 3 in a case, and a Tau.
RenderBodies ==
    { <<>>,
      <<At(SendStatement, 2), At(RecvStatement, 2)>>,
      <<IfStatement(<<At(SendStatement, 3)>>, <<>>)>>,
      <<At(SelectCases(<<<<At(RecvStatement, 3)>>>>), 2), TauStatement>> }

\* The registries handed to an annotated render.
RenderRegistries ==
    { NoProperties,
      AddProperties(NoProperties, <<"p1", "q1">>, 1),
      AddProperties(AddProperties(NoProperties, <<"p2">>, 2), <<"p3">>, 3),
      AddProperties(NoProperties, <<"p0">>, noPosition),
      AddProperties(NoProperties, <<>>, 2) }

\* The sequences of distinct names of RenderNames, of length 1 to n.
NameSeqs(n) ==
    { q \in SeqsUpTo(n, RenderNames) :
        q # <<>> /\ \A i, j \in 1..Len(q) : i # j => q[i] # q[j] }

\* The Program after, for each k in order, NewFunction, AddParams, AddStmts
\* and AddFunction of the function named names[k] with the body bodies[k],
\* which is put away where away[k] says so.
RECURSIVE RenderProgram(_, _, _, _)
RenderProgram(names, bodies, away, k) ==
    IF k = 0 THEN <<>>
    ELSE LET f0 == FunctionAt(names[k], k, LineOf(names[k]))
             f1 == AddParams(f0, ParamsOf(names[k]))
             f2 == AddStmts(f1, bodies[k])
         IN AddFunction(RenderProgram(names, bodies, away, k - 1),
                        IF away[k] THEN PutAway(f2) ELSE f2)

\* No render call has ended the process.
Alive == IF hist = <<>> THEN TRUE ELSE hist[Len(hist)].status = "ok"

\* The record of a render call in hist.
RenderCall(call, fn, args, text, status, report) ==
    [call |-> call, fn |-> fn, args |-> args, funcs0 |-> Funcs,
     text |-> text, status |-> status, report |-> report]

\* What every render call does to the bookkeeping of the model.
Rendered ==
    /\ steps' = steps + 1
    /\ ret' = NoRet
    /\ AnalysisIdle
    /\ UNCHANGED <<calls, saved, simplifyVars>>

CallProgramString ==
    /\ phase # "run" /\ steps < MaxSteps /\ Alive
    /\ LET r == ProgramString(Funcs, 1) IN
       /\ Funcs' = r.p
       /\ hist' = Append(hist, RenderCall("Program.String", 0, NoProperties,
                                          r.text, "ok", <<>>))
    /\ UNCHANGED props
    /\ Rendered

\* log.Fatalf reports props.Values(), in whatever order the map is iterated.
CallProgramPrintWithProperties(reg) ==
    /\ phase # "run" /\ steps < MaxSteps /\ Alive
    /\ LET r == ProgramPrintWithProperties(Funcs, reg) IN
       /\ Funcs' = r.p
       /\ props' = r.ps
       /\ \E report \in (IF r.status = "fatal" THEN Values(r.ps) ELSE {<<>>}) :
             hist' = Append(hist, RenderCall("Program.PrintWithProperties", 0, reg,
                                             r.text, r.status, report))
    /\ Rendered

CallFunctionString(i) ==
    /\ phase # "run" /\ steps < MaxSteps /\ Alive
    /\ LET r == FunctionString(Funcs[i]) IN
       /\ Funcs' = [Funcs EXCEPT ![i] = r.f]
       /\ hist' = Append(hist, RenderCall("Function.String", i, NoProperties,
                                          r.text, "ok", <<>>))
    /\ UNCHANGED props
    /\ Rendered

CallFunctionPrintWithProperties(i, reg) ==
    /\ phase # "run" /\ steps < MaxSteps /\ Alive
    /\ LET r == FunctionPrintWithProperties(Funcs[i], reg) IN
       /\ Funcs' = [Funcs EXCEPT ![i] = r.f]
       /\ props' = r.ps
       /\ hist' = Append(hist, RenderCall("Function.PrintWithProperties", i, reg,
                                          r.text, "ok", <<>>))
    /\ Rendered

RenderInit(n, A) ==
    /\ \E names \in NameSeqs(n) :
          /\ \E bodies \in [1..Len(names) -> RenderBodies], away \in [1..Len(names) -> A] :
                /\ Funcs = RenderProgram(names, bodies, away, Len(names))
                /\ saved = [i \in 1..Len(names) |->
                               IF away[i] THEN <<bodies[i]>> ELSE <<>>]
          /\ calls = names
    /\ steps = MaxSteps - 2    \* two calls are left
    /\ ret = NoRet
    /\ known = <<>>
    /\ callstack = <<>>
    /\ visits = <<>>
    /\ phase = "idle"
    /\ root = 0
    /\ before = <<>>
    /\ pc = <<>>
    /\ trace = <<>>
    /\ prog0 = <<>>
    /\ tauDeleted = {}
    /\ props = NoProperties
    /\ hist = <<>>

InitRender == RenderInit(MaxRenderFuncs, {FALSE})

\* One function, which may have put its body away.
InitRenderFunction == RenderInit(1, BOOLEAN)

NextRender ==
    \/ CallProgramString
    \/ \E reg \in RenderRegistries : CallProgramPrintWithProperties(reg)

NextRenderFunction ==
    \/ \E i \in 1..Len(Funcs) : CallFunctionString(i)
    \/ \E i \in 1..Len(Funcs), reg \in RenderRegistries :
          CallFunctionPrintWithProperties(i, reg)

SpecRender == InitRender /\ [][NextRender]_vars

SpecRenderFunction == InitRenderFunction /\ [][NextRenderFunction]_vars

----------------------------------------------------------------------------
(* The classification on its own: SpecHasComm hands one batch to AddStmts  *)
(* of a new function, whose HasComm then is hasComm of the batch.          *)

ClassifyPool ==
    { TauStatement, MemWrite, MemRead, SyncMutexLock,
      SendStatement, RecvStatement, CloseStatement, SelectStatement, NewChanStatement,
      CallStatement("f", 0), CallStatement("f", 1), SpawnStatement("f", 0),
      SpawnStatement("f", 2),
      IfStatement(<<>>, <<>>), IfStatement(<<TauStatement>>, <<SendStatement>>),
      IfStatement(<<CallStatement("f", 0), RecvStatement>>, <<MemWrite>>),
      IfForStatement(<<CloseStatement>>, <<>>), IfForStatement(<<TauStatement>>, <<>>),
      IfStatement(<<IfForStatement(<<>>, <<MemRead, RecvStatement>>)>>, <<>>) }

ClassifyBatches == SeqsUpTo(MaxBatch, ClassifyPool)

InitHasComm ==
    /\ Funcs = <<NewFunction("f", 1)>>
    /\ calls = <<"f">>
    /\ steps = MaxSteps - 1    \* one call is left
    /\ ret = NoRet
    /\ saved = <<<<>>>>
    /\ known = <<>>
    /\ callstack = <<>>
    /\ visits = <<>>
    /\ phase = "idle"
    /\ root = 0
    /\ before = <<>>
    /\ pc = <<>>
    /\ trace = <<>>
    /\ prog0 = <<>>
    /\ tauDeleted = {}
    /\ props = <<>>
    /\ hist = <<>>

NextHasComm == \E b \in ClassifyBatches : CallAddStmts(1, b)

SpecHasComm == InitHasComm /\ [][NextHasComm]_vars

----------------------------------------------------------------------------
(* The parameter list on its own: SpecParams makes two AddParams calls on  *)
(* a new function.                                                         *)

CallerVars == {"a", "b"}
CalleeVars == {"x", "y"}

ParamPool == {Parameter(a, x) : a \in CallerVars, x \in CalleeVars}

ParamBatches == SeqsUpTo(MaxParams, ParamPool)

CallAddParams(i, ps) ==
    /\ phase # "run"
    /\ steps < MaxSteps
    /\ Funcs' = [Funcs EXCEPT ![i] = AddParams(@, ps)]
    /\ hist' = Append(hist, [call |-> "AddParams", fn |-> i, args |-> ps,
                             funcs0 |-> Funcs])
    /\ steps' = steps + 1
    /\ ret' = NoRet
    /\ AnalysisIdle
    /\ UNCHANGED <<calls, saved, simplifyVars, props>>

InitParams ==
    /\ Funcs = <<NewFunction("f", 1)>>
    /\ calls = <<"f">>
    /\ steps = MaxSteps - 2    \* two calls are left
    /\ ret = NoRet
    /\ saved = <<<<>>>>
    /\ known = <<>>
    /\ callstack = <<>>
    /\ visits = <<>>
    /\ phase = "idle"
    /\ root = 0
    /\ before = <<>>
    /\ pc = <<>>
    /\ trace = <<>>
    /\ prog0 = <<>>
    /\ tauDeleted = {}
    /\ props = <<>>
    /\ hist = <<>>

NextParams == \E ps \in ParamBatches : CallAddParams(1, ps)

SpecParams == InitParams /\ [][NextParams]_vars

----------------------------------------------------------------------------
(* Claims about the construction API, checked under Spec. *)

Last(q) == q[Len(q)]

\* C1: HasComm is sticky.  No step of Spec (AddStmts, PutAway, Restore,
\* String, AddFunction, a step of the reachability analysis) takes a function
\* whose HasComm is true to a state where its HasComm is false.
C1_HasCommSticky ==
    [][\A i \in 1..Len(Funcs) : Funcs[i].HasComm => Funcs'[i].HasComm]_vars

\* A function that was communicating, was then put away and rendered empty:
\* its HasComm is still true.
C1_Witness ==
    \E i \in 1..Len(Funcs) :
        /\ Funcs[i].HasComm
        /\ Funcs[i].Stmts = <<TauStatement>>
        /\ Funcs[i].stack = << <<SendStatement>> >>

\* C2: the trailing-Tau edge case of AddStmts.  Appending a communicating
\* batch b to a function whose HasComm is false appends b; HasComm stays
\* false when the sequence has more than one statement and ends in Tau, and
\* becomes true when the sequence is non-empty and does not end in Tau.
C2_TrailingTau ==
    [][\A i \in 1..Len(Funcs), b \in Batches :
          (CallAddStmts(i, b) /\ hasComm(b) /\ ~Funcs[i].HasComm /\ Funcs[i].Stmts # <<>>)
          => LET old == Funcs[i].Stmts IN
             /\ Funcs'[i].Stmts = old \o b
             /\ (Len(old) > 1 /\ IsTau(Last(old)) => ~Funcs'[i].HasComm)
             /\ (~IsTau(Last(old)) => Funcs'[i].HasComm)]_vars

\* [A, Tau, Send] with A non-communicating and HasComm still false.
C2_Witness ==
    \E i \in 1..Len(Funcs) :
        /\ ~Funcs[i].HasComm
        /\ Len(Funcs[i].Stmts) = 3
        /\ ~IsTau(Funcs[i].Stmts[1])
        /\ IsTau(Funcs[i].Stmts[2])
        /\ Funcs[i].Stmts[3] = SendStatement

\* The first call of AddFunction with the name n.
FirstCall(n) ==
    CHOOSE k \in 1..Len(calls) : calls[k] = n /\ \A j \in 1..(k - 1) : calls[j] # n

\* C5: after any sequence of AddFunction calls, Funcs holds exactly one
\* function per name registered, that function is the object of the first call
\* with the name, and the functions are in the order of their first
\* registration.  (A later call with a name already present therefore changed
\* nothing: ids are object identities.)
C5_AddFunctionFirstWins ==
    /\ \A i, j \in 1..Len(Funcs) : i # j => Funcs[i].Name # Funcs[j].Name
    /\ FuncNames(Funcs) = {calls[k] : k \in 1..Len(calls)}
    /\ \A i \in 1..Len(Funcs) : Funcs[i].id = FirstCall(Funcs[i].Name)
    /\ \A i, j \in 1..Len(Funcs) : i < j => Funcs[i].id < Funcs[j].id

\* AddFunction was called twice with one name: one function is registered.
C5_Witness ==
    /\ Len(calls) >= 2
    /\ calls[1] = calls[2]
    /\ Len(Funcs) = 1

\* C6 as stated: after the Restore matching a PutAway, the function's Stmts is
\* the sequence S that PutAway saved.
C6_RestoreInstallsSaved ==
    [][\A i \in 1..Len(Funcs) :
          (CallRestore(i) /\ saved[i] # <<>>) => Funcs'[i].Stmts = Last(saved[i])]_vars

\* C6 amended: PutAway saves the current sequence S and makes the current
\* sequence empty; the matching Restore (LIFO) returns S to its caller without
\* an error and takes it off the stack, and leaves the function's Stmts as it
\* was before the call.
C6_RestoreReturnsSaved ==
    [][\A i \in 1..Len(Funcs) :
          /\ CallPutAway(i) =>
                /\ Funcs'[i].Stmts = <<>>
                /\ Len(Funcs'[i].stack) = Len(Funcs[i].stack) + 1
          /\ (CallRestore(i) /\ saved[i] # <<>>) =>
                /\ ret'.err = "nil"
                /\ ret'.stmts = Last(saved[i])
                /\ Funcs'[i].Stmts = Funcs[i].Stmts
                /\ Len(Funcs'[i].stack) = Len(Funcs[i].stack) - 1]_vars

\* Restore has returned [Send], saved before the nested block got its Tau.
C6_Witness ==
    /\ ret.err = "nil"
    /\ ret.stmts = <<SendStatement>>
    /\ \E i \in 1..Len(Funcs) :
          /\ Funcs[i].Stmts = <<TauStatement>>
          /\ Funcs[i].stack = <<>>
          /\ saved[i] = <<>>

\* C7: Restore with no PutAway outstanding returns the EmptyStack error and
\* leaves the function (Stmts, HasComm, stack) unchanged; Restore with a PutAway
\* outstanding returns no error.
C7_RestoreEmptyStack ==
    [][\A i \in 1..Len(Funcs) :
          CallRestore(i) =>
             IF saved[i] = <<>>
             THEN ret'.err = "EmptyStack" /\ Funcs'[i] = Funcs[i]
             ELSE ret'.err = "nil"]_vars

\* Restore failed on a function that had put away and restored before.
C7_Witness ==
    /\ ret.err = "EmptyStack"
    /\ steps >= 3
    /\ \E i \in 1..Len(Funcs) : Funcs[i].Stmts # <<>> /\ Funcs[i].stack = <<>>

----------------------------------------------------------------------------
(* Claims about the reachability analysis, checked under SpecAnalysis and  *)
(* FairAnalysis.                                                           *)

\* The functions p[i] calls or spawns: the edges the analysis follows.
Succ(p, i) ==
    {Function(p, p[i].Stmts[k].Name) :
        k \in {k \in 1..Len(p[i].Stmts) : IsCallOrSpawn(p[i].Stmts[k])}} \ {0}

RECURSIVE Closure(_, _)
Closure(p, S) ==
    LET T == S \cup UNION {Succ(p, i) : i \in S} IN
    IF T = S THEN S ELSE Closure(p, T)

\* The functions reachable from p[i] by one or more call/spawn edges.
ReachPlus(p, i) == Closure(p, Succ(p, i))

\* p[i] directly contains a Send, Receive, Close, Select or NewChannel.
DirectComm(p, i) == \E k \in 1..Len(p[i].Stmts) : p[i].Stmts[k].kind \in CommKinds

\* p[i] lies on a cycle with a member that directly communicates.
OnCommCycle(p, i) ==
    \E m \in 1..Len(p) :
        DirectComm(p, m) /\ m \in ReachPlus(p, i) /\ i \in ReachPlus(p, m)

\* C3 as stated: after a run, every function reachable from the root that lies
\* on a call/spawn cycle with a directly communicating member has HasComm true.
C3_CycleMembersCommunicate ==
    phase = "done" =>
        \A i \in {root} \cup ReachPlus(Funcs, root) :
            OnCommCycle(Funcs, i) => Funcs[i].HasComm

\* C4: the analysis terminates on every Program, call graphs with self-calls
\* and cycles included, and a run traverses the body of a function at most once.
C4_TerminatesVisitingOnce ==
    /\ [](\A n \in DOMAIN visits : visits[n] <= 1)
    /\ (phase = "run" ~> phase = "done")

\* A finished run over a cycle through the root and a function that calls
\* itself, in which every reachable body was traversed once.
C4_Witness ==
    /\ phase = "done"
    /\ \A i \in ReachPlus(Funcs, root) : visits[Funcs[i].Name] = 1
    /\ root \in ReachPlus(Funcs, root)
    /\ \E i \in ReachPlus(Funcs, root) : i # root /\ i \in Succ(Funcs, i)

\* C19: soundness of the analysis.  After a run from root r, a function g
\* other than r has HasComm true only if its HasComm was true before the run
\* or a function whose HasComm was true before the run is reachable from g by
\* Call/Spawn statements whose targets resolve (a statement whose target is
\* absent is no edge and stops nothing); r itself has HasComm true.
C19_AnalysisSound ==
    phase = "done" =>
        /\ Funcs[root].HasComm
        /\ \A g \in (1..Len(Funcs)) \ {root} :
              Funcs[g].HasComm =>
                  \/ before[g].HasComm
                  \/ \E h \in ReachPlus(before, g) : before[h].HasComm

\* A finished run from a root that did not communicate before, which made a
\* function other than the root communicating because of a function it reaches.
C19_Witness ==
    /\ phase = "done"
    /\ \E g \in (1..Len(Funcs)) \ {root} : Funcs[g].HasComm /\ ~before[g].HasComm
    /\ ~before[root].HasComm

----------------------------------------------------------------------------
(* Claims about SimplifyProgram, checked under SpecSimplify. *)

\* The Program handed to SimplifyProgram had the root function.
HadRoot == Function(prog0, MainName) # 0

\* The body the function named n had when SimplifyProgram was called.
Body0(n) == prog0[Function(prog0, n)].Stmts

\* The number of Tau statements in stmts, nested ones included.
RECURSIVE CountTau(_)
CountTau(stmts) ==
    IF stmts = <<>> THEN 0
    ELSE LET s == Head(stmts) IN
         (IF IsTau(s) THEN 1 ELSE CountTau(s.Then) + CountTau(s.Else))
         + CountTau(Tail(stmts))

\* The number of Call and Spawn statements in stmts that target a name in T.
RECURSIVE CountSites(_, _)
CountSites(stmts, T) ==
    IF stmts = <<>> THEN 0
    ELSE LET s == Head(stmts) IN
         (IF IsCallOrSpawn(s)
          THEN IF s.Name \in T THEN 1 ELSE 0
          ELSE CountSites(s.Then, T) + CountSites(s.Else, T))
         + CountSites(Tail(stmts), T)

\* C8: after SimplifyProgram, with or without a root, no Call or Spawn
\* statement of the Program (nested ones included) targets a name that is
\* absent from the Program's functions.
C8_NoDanglingCalls ==
    SimplifyDone =>
        \A i \in 1..Len(Funcs) : Targets(Funcs[i].Stmts) \subseteq FuncNames(Funcs)

\* A function that called a missing target is still in the simplified
\* Program, and a function some call targeted was deleted on the way.
C8_Witness ==
    /\ SimplifyDone
    /\ \E i \in 1..Len(prog0) :
          /\ Missing \in Targets(prog0[i].Stmts)
          /\ prog0[i].Name \in FuncNames(Funcs)
    /\ \E i, j \in 1..Len(prog0) :
          /\ prog0[j].Name \in Targets(prog0[i].Stmts)
          /\ prog0[j].Name \notin FuncNames(Funcs)

\* C9: when the root exists, after SimplifyProgram the root is still in the
\* Program, every remaining function is reachable from the root by call/spawn
\* edges, no statement calls or spawns a function tau-function reduction
\* deleted, and every site that did is a Tau now: each remaining body holds at
\* least the Tau statements it had plus one for each such site.
C9_RootScenario ==
    (SimplifyDone /\ HadRoot) =>
        /\ MainName \in FuncNames(Funcs)
        /\ FuncNames(Funcs) \subseteq ReachNames(Funcs, {MainName})
        /\ \A i \in 1..Len(Funcs) :
              /\ Targets(Funcs[i].Stmts) \cap tauDeleted = {}
              /\ CountTau(Funcs[i].Stmts) >=
                    CountTau(Body0(Funcs[i].Name))
                    + CountSites(Body0(Funcs[i].Name), tauDeleted)

\* The scenario of the spec: main called the trivial h, g was unreachable; h
\* is rewritten away, which makes main's own body Tau only, and g is removed.
C9_Witness ==
    /\ SimplifyDone
    /\ HadRoot
    /\ "h" \in tauDeleted
    /\ Body0(MainName) = <<CallStatement("h", 0)>>
    /\ "g" \in FuncNames(prog0)
    /\ ~TauBody(Body0("g"), {})
    /\ FuncNames(Funcs) = {MainName}
    /\ Funcs[1].Stmts = <<TauStatement>>

\* C10: when the Program has no root, SimplifyProgram runs tau-function
\* reduction with no exclusions and then dead-call removal, and nothing else:
\* every function whose body is Tau statements only is deleted, and a function
\* that is not trivial and that no other function calls or spawns is still in
\* the Program afterwards.
C10_NoRootScenario ==
    (SimplifyDone /\ ~HadRoot) =>
        /\ trace = <<"taufunc.Remove", "deadcall.Remove">>
        /\ TrivialOnce(prog0, {}) \cap FuncNames(Funcs) = {}
        /\ \A i \in 1..Len(prog0) :
              ( /\ prog0[i].Name \notin TrivialClosure(prog0, {})
                /\ \A j \in 1..Len(prog0) :
                      j # i => prog0[i].Name \notin Targets(prog0[j].Stmts) )
              => prog0[i].Name \in FuncNames(Funcs)

\* Without a root: a trivial function was deleted, and a non-trivial function
\* that nothing calls is still there.
C10_Witness ==
    /\ SimplifyDone
    /\ ~HadRoot
    /\ tauDeleted # {}
    /\ \E i \in 1..Len(prog0) :
          /\ prog0[i].Name \notin TrivialClosure(prog0, {})
          /\ \A j \in 1..Len(prog0) : prog0[i].Name \notin Targets(prog0[j].Stmts)
          /\ prog0[i].Name \in FuncNames(Funcs)

----------------------------------------------------------------------------
(* Claims about the classification, checked under SpecHasComm. *)

\* The variants the scan of hasComm passes over.
Skipped(s) == s.kind \notin CommKinds \cup {"If", "IfFor", "Call", "Spawn"}

\* The index of the first statement of stmts the scan stops at, 0 if none.
FirstClassifying(stmts) ==
    IF \A k \in 1..Len(stmts) : Skipped(stmts[k]) THEN 0
    ELSE CHOOSE k \in 1..Len(stmts) :
            ~Skipped(stmts[k]) /\ \A j \in 1..(k - 1) : Skipped(stmts[j])

\* The classification the first classifying statement decides.
RECURSIVE Classified(_)
Classified(stmts) ==
    LET k == FirstClassifying(stmts) IN
    IF k = 0 THEN FALSE
    ELSE LET s == stmts[k] IN
         IF s.kind \in CommKinds THEN TRUE
         ELSE IF s.kind \in {"If", "IfFor"} THEN Classified(s.Then) \/ Classified(s.Else)
         ELSE s.np >= 1

\* C16: the classification of a batch is decided by its first classifying
\* statement: a Send, Receive, Close, Select or NewChannel gives true; an If
\* or IfFor gives (then-branch communicates or else-branch communicates); a
\* Call or Spawn gives true exactly when it has a parameter binding; Tau,
\* memory and mutex statements are passed over; a batch without a classifying
\* statement gives false.  A batch made of an If with non-communicating
\* branches, or of a Call without parameters, followed by a Send is
\* non-communicating.
C16_FirstClassifierDecides ==
    steps = MaxSteps =>
        LET b == Funcs[1].Stmts IN
        /\ Funcs[1].HasComm = Classified(b)
        /\ (Len(b) = 2 /\ b[2] = SendStatement /\ b[1].kind \in {"Call", "Spawn"}
             /\ b[1].np = 0) => ~Funcs[1].HasComm
        /\ (Len(b) = 2 /\ b[2] = SendStatement /\ b[1] = IfStatement(<<>>, <<>>))
             => ~Funcs[1].HasComm

\* A Call without parameters followed by a Send was classified.
C16_Witness ==
    /\ steps = MaxSteps
    /\ Funcs[1].Stmts = <<CallStatement("f", 0), SendStatement>>
    /\ ~Funcs[1].HasComm

----------------------------------------------------------------------------
(* Claims about the parameter list, checked under SpecParams. *)

\* Two parameters collide: same caller-side or same callee-side variable.
Collide(p, q) == p.Caller = q.Caller \/ p.Callee = q.Callee

\* The entries of ps at the indexes in K from k on, in order.
RECURSIVE PickFrom(_, _, _)
PickFrom(ps, K, k) ==
    IF k > Len(ps) THEN <<>>
    ELSE (IF k \in K THEN <<ps[k]>> ELSE <<>>) \o PickFrom(ps, K, k + 1)

\* new is old followed by the entries of ps at the indexes K, where an entry
\* is left out exactly when it collides with an entry of old or with an
\* entry of ps kept before it.
KeptFirstWins(old, ps, new) ==
    \E K \in SUBSET (1..Len(ps)) :
        /\ new = old \o PickFrom(ps, K, 1)
        /\ \A k \in 1..Len(ps) :
              k \in K <=>
                  /\ \A m \in 1..Len(old) : ~Collide(old[m], ps[k])
                  /\ \A j \in K : j < k => ~Collide(ps[j], ps[k])

\* C15: after any sequence of AddParams calls no two entries of Params share
\* their caller-side variable and no two share their callee-side variable; a
\* parameter that collides on either side with an entry already present, one
\* added earlier in the same call included, is dropped; the entries kept stay
\* in insertion order.
C15_ParamsUnique ==
    /\ \A i \in 1..Len(Funcs) : \A k, m \in 1..Len(Funcs[i].Params) :
            k # m => ~Collide(Funcs[i].Params[k], Funcs[i].Params[m])
    /\ hist # <<>> =>
            LET c == Last(hist) IN
            KeptFirstWins(c.funcs0[c.fn].Params, c.args, Funcs[c.fn].Params)

\* The second AddParams call was handed two parameters and kept one: the
\* other collided, on one side only, with an entry of the first call.
C15_Witness ==
    /\ Len(hist) = 2
    /\ hist[2].args = <<Parameter("a", "y"), Parameter("b", "y")>>
    /\ hist[2].funcs0[1].Params = <<Parameter("a", "x")>>
    /\ Funcs[1].Params = <<Parameter("a", "x"), Parameter("b", "y")>>

----------------------------------------------------------------------------
(* Claims about rendering one function, checked under SpecRenderFunction. *)

\* The lines of text that are not properties.
OwnLines(text) ==
    LET NoProp(l) == l.kind # "prop" IN SelectSeq(text, NoProp)

\* The last render call was of a function whose statement sequence was empty.
RenderedEmpty ==
    /\ hist # <<>>
    /\ Last(hist).call \in {"Function.String", "Function.PrintWithProperties"}
    /\ Last(hist).funcs0[Last(hist).fn].Stmts = <<>>

\* C13: rendering a function whose statement sequence is empty, with String
\* or with PrintWithProperties, prints the header and after it exactly one
\* "tau;" statement line, and appends exactly one Tau to the function:
\* afterwards IsEmpty() is false, the sequence is [Tau], HasComm is as before.
C13_EmptyRendersTau ==
    RenderedEmpty =>
        LET c == Last(hist)
            f0 == c.funcs0[c.fn]
            f == Funcs[c.fn]
            own == OwnLines(c.text)
        IN /\ Len(own) = 2
           /\ own[1].kind = "def"
           /\ own[2] = Line("stmt", 4, <<"tau", ";">>)
           /\ ~IsEmpty(f)
           /\ f.Stmts = <<TauStatement>>
           /\ f.HasComm = f0.HasComm

\* An annotated render of a function that communicates and had put its body
\* away.
C13_Witness ==
    /\ RenderedEmpty
    /\ Last(hist).call = "Function.PrintWithProperties"
    /\ Last(hist).funcs0[1].HasComm
    /\ Funcs[1].Stmts = <<TauStatement>>

----------------------------------------------------------------------------
(* Claims about rendering a Program, checked under SpecRender. *)

\* The lines of text of the given kind.
LinesOf(text, kind) ==
    LET Is(l) == l.kind = kind IN SelectSeq(text, Is)

\* The functions of p whose statement sequence is not empty, in order.
NonEmptyFuncs(p) ==
    LET Full(f) == f.Stmts # <<>> IN SelectSeq(p, Full)

\* The sum of the lengths of the statement sequences of p.
RECURSIVE TotalStmts(_)
TotalStmts(p) == IF p = <<>> THEN 0 ELSE Len(Head(p).Stmts) + TotalStmts(Tail(p))

\* C20: Program.String emits a definition for exactly the functions whose
\* statement sequence is non-empty, in registration order, and leaves the
\* whole Program unchanged: an empty function produces no text and is still
\* empty afterwards.
C20_PlainKeepsProgram ==
    (hist # <<>> /\ Last(hist).call = "Program.String") =>
        LET c == Last(hist)
            full == NonEmptyFuncs(c.funcs0)
        IN /\ Funcs = c.funcs0
           /\ LinesOf(c.text, "def") = [k \in 1..Len(full) |-> DefLine(full[k])]
           /\ Len(LinesOf(c.text, "stmt")) = TotalStmts(c.funcs0)
           /\ LinesOf(c.text, "prop") = <<>>
           /\ \A i \in 1..Len(Funcs) : c.funcs0[i].Stmts = <<>> => IsEmpty(Funcs[i])

\* Program.String has rendered a Program of an empty function followed by a
\* non-empty one.
C20_Witness ==
    /\ hist # <<>>
    /\ Last(hist).call = "Program.String"
    /\ Len(Funcs) = 2
    /\ IsEmpty(Funcs[1])
    /\ ~IsEmpty(Funcs[2])
    /\ Len(LinesOf(Last(hist).text, "def")) = 1

\* The two render calls made were of the whole Program in the same mode,
\* the annotated ones with registries of the same content, on a Program that
\* had no empty function, and the first returned its text.
RenderedTwice ==
    /\ Len(hist) = 2
    /\ hist[1].call = hist[2].call
    /\ hist[1].args = hist[2].args
    /\ hist[1].status = "ok"
    /\ \A i \in 1..Len(hist[1].funcs0) : hist[1].funcs0[i].Stmts # <<>>

\* C14: for a Program without an empty function, rendering it twice in the
\* same mode (plain, or annotated with a fresh registry of the same content
\* each time) gives the same text both times and leaves the Stmts and the
\* HasComm of every function as they were before the first render.
C14_RenderTwiceSame ==
    RenderedTwice =>
        /\ hist[2].status = "ok"
        /\ hist[2].text = hist[1].text
        /\ Len(Funcs) = Len(hist[1].funcs0)
        /\ \A i \in 1..Len(Funcs) :
              /\ Funcs[i].Stmts = hist[1].funcs0[i].Stmts
              /\ Funcs[i].HasComm = hist[1].funcs0[i].HasComm

\* Two annotated renders, each with a registry of two properties, of a
\* Program of two functions, none empty.
C14_Witness ==
    /\ RenderedTwice
    /\ hist[2].call = "Program.PrintWithProperties"
    /\ hist[2].args # NoProperties
    /\ Len(Funcs) = 2
    /\ Len(LinesOf(hist[2].text, "prop")) = 2

\* The last call was an annotated render of the whole Program that did
\* render: the root was there.
RenderedAnnotated ==
    /\ hist # <<>>
    /\ Last(hist).call = "Program.PrintWithProperties"
    /\ Last(hist).status # "panic"

\* The functions of p in the order the annotated render takes them: the
\* root, then the functions its loop does not pass over.
RenderOrder(p) ==
    LET Taken(f) == InLoop(f) IN <<p[Function(p, MainName)]>> \o SelectSeq(p, Taken)

\* The source lines of the header and of the top-level statements of the
\* functions in q, in order.
RECURSIVE ItemLines(_)
ItemLines(q) ==
    IF q = <<>> THEN <<>>
    ELSE LET f == Head(q) IN
         <<f.Pos>> \o [k \in 1..Len(f.Stmts) |-> Position(f.Stmts[k])]
                   \o ItemLines(Tail(q))

\* For each line of text that is not a property, the properties that stand
\* directly before it; acc holds the ones read since the last such line.
RECURSIVE PropGroups(_, _)
PropGroups(text, acc) ==
    IF text = <<>> THEN <<>>
    ELSE IF Head(text).kind = "prop"
         THEN PropGroups(Tail(text), acc \o Head(text).body)
         ELSE <<acc>> \o PropGroups(Tail(text), <<>>)

\* C17: the registry is read once.  In an annotated render the header or
\* statement rendered first for a source line gets the whole list registered
\* for that line, directly before it, and the entry of that line leaves the
\* registry while the other entries stay as they are; a header or statement
\* rendered later for the same line gets nothing, so every registered
\* annotation is emitted at most once.
C17_RegistryReadOnce ==
    RenderedAnnotated =>
        LET c == Last(hist)
            items == ItemLines(RenderOrder(Funcs))
            groups == PropGroups(c.text, <<>>)
            First(k) == \A j \in 1..(k - 1) : items[j] # items[k]
        IN /\ Len(groups) = Len(items)
           /\ \A k \in 1..Len(items) :
                 groups[k] = IF items[k] \in DOMAIN c.args /\ First(k)
                             THEN c.args[items[k]] ELSE <<>>
           /\ DOMAIN props = DOMAIN c.args \ Range(items)
           /\ \A l \in DOMAIN props : props[l] = c.args[l]

\* An annotated render that returned, in which the two statements of each of
\* two rendered functions had the source line of one registered list.
C17_Witness ==
    /\ RenderedAnnotated
    /\ 2 \in DOMAIN Last(hist).args
    /\ Len(Funcs) = 2
    /\ \A i \in 1..2 : /\ InLoop(Funcs[i]) \/ Funcs[i].Name = MainName
                       /\ Len(Funcs[i].Stmts) = 2
                       /\ Position(Funcs[i].Stmts[1]) = 2
                       /\ Position(Funcs[i].Stmts[2]) = 2
    /\ Last(hist).status = "ok"
    /\ Len(LinesOf(Last(hist).text, "prop")) = 2

\* The source lines of the statements of stmts, the ones nested in the
\* branches of an If or IfFor and in the cases of a Select included.
RECURSIVE NestedLines(_)
NestedLines(stmts) ==
    UNION { {Position(s)} \cup NestedLines(s.Then) \cup NestedLines(s.Else)
            \cup UNION {NestedLines(s.Cases[k]) : k \in 1..Len(s.Cases)} :
            s \in Range(stmts) }

\* The properties text holds, in order.
Emitted(text) == Flatten([k \in 1..Len(text) |->
                            IF text[k].kind = "prop" THEN text[k].body ELSE <<>>])

\* C11 as stated: in an annotated render, for every rendered function and
\* every statement rendered inside it, at top level or nested in an If, IfFor
\* or Select, the annotations registered for its source line are consumed
\* from the registry and emitted.
C11_AnnotationsAtEveryStatement ==
    RenderedAnnotated =>
        LET c == Last(hist)
            q == RenderOrder(Funcs)
            lines == UNION { {q[k].Pos} \cup NestedLines(q[k].Stmts) : k \in 1..Len(q) }
        IN \A l \in (DOMAIN c.args \cap lines) \ {noPosition} :
              /\ l \notin DOMAIN props
              /\ \A k \in 1..Len(c.args[l]) : c.args[l][k] \in Range(Emitted(c.text))

\* The number of properties the registry ps holds.
RECURSIVE CountValues(_)
CountValues(ps) ==
    IF DOMAIN ps = {} THEN 0
    ELSE LET l == CHOOSE l \in DOMAIN ps : TRUE IN
         Len(ps[l]) + CountValues([m \in DOMAIN ps \ {l} |-> ps[m]])

\* C12: Program.PrintWithProperties ends in a fatal failure that reports all
\* the annotation values left exactly when the registry still has an entry
\* after the root and every function of the loop have been rendered; a call
\* that returns its text leaves the registry empty.
C12_FatalIffLeftover ==
    RenderedAnnotated =>
        LET c == Last(hist) IN
        /\ c.status = "fatal" <=> DOMAIN props # {}
        /\ c.status = "fatal" =>
              /\ Range(c.report) = UNION {Range(props[l]) : l \in DOMAIN props}
              /\ Len(c.report) = CountValues(props)
        /\ c.status = "ok" => props = NoProperties /\ c.report = <<>>

\* A fatal failure with the lists of two lines left, reported in the order
\* opposite to that of the lines.
C12_Witness ==
    /\ RenderedAnnotated
    /\ Last(hist).status = "fatal"
    /\ DOMAIN props = {2, 3}
    /\ Last(hist).report = <<"p3", "p2">>

\* The filtered name of f starts with os, syscall, internal_poll or sync.o.
Excluded(f) ==
    LET n == SimpleName(f.Name) IN
    \/ HasPrefix(n, <<"o", "s">>)
    \/ HasPrefix(n, <<"s", "y", "s", "c", "a", "l", "l">>)
    \/ HasPrefix(n, <<"i", "n", "t", "e", "r", "n", "a", "l", "_", "p", "o", "l", "l">>)
    \/ HasPrefix(n, <<"s", "y", "n", "c", ".", "o">>)

\* C18 as stated: with the root in the Program, the text of an annotated
\* render holds the definition of the root first, whatever the place of the
\* root in the registration order, and then, in registration order, the
\* definitions of the other functions, leaving out exactly those whose
\* filtered name starts with os, syscall, internal_poll or sync.o.
C18_RootFirstOthersInOrder ==
    RenderedAnnotated =>
        LET c == Last(hist)
            Other(f) == f.Name # MainName /\ ~Excluded(f)
            others == SelectSeq(Funcs, Other)
        IN LinesOf(c.text, "def") =
              <<DefLine(Funcs[Function(Funcs, MainName)])>>
              \o [k \in 1..Len(others) |-> DefLine(others[k])]

====
